---- MODULE Spec2Model ----
(***************************************************************************)
(* A model of nova.core.motion_group.MotionGroup: plan, stream_run / run   *)
(* (the plan -> load -> move-to-start -> execute-trajectory pipeline of    *)
(* _planned_motion_iter) and stop.                                         *)
(*                                                                         *)
(* Every coroutine is cut at its awaits: one action is the arrival of the  *)
(* awaited answer together with all the code that runs up to the next      *)
(* await.  The remote service is the environment; its answers are drawn    *)
(* from small sets.                                                        *)
(***************************************************************************)
EXTENDS Naturals, Sequences, FiniteSets, TLC

\* ------------------------------------------------------------------ bounds
\* positioning states the move-to-trajectory stream delivers before it ends
MaxPositioning == 1
\* progress updates the execute-trajectory stream delivers
MaxProgress == 2
\* length of the action list handed to plan / stream_run / run
MaxActions == 2
\* calls of stop
MaxStops == 2

\* ------------------------------------------------------------ value spaces
None == "None"

\* coroutines started on MotionGroup objects; each runs once
Sessions == {"s1", "s2"}

\* the MotionGroup objects (one per unit)
Units == {"ur", "kuka"}

\* the public entry points a session is a call of
Modes == {"plan", "stream_run", "run"}

TCPs == {"Flange", "gripper"}

\* an I/O side effect attached to an action, tagged with its path parameter
IOa == [key |-> "io_a", path_parameter |-> 1]
IOb == [key |-> "io_b", path_parameter |-> 0]

\* Action values: one motion primitive plus its attached I/O effects
ActionJnt == [motion |-> "jnt", ios |-> << >>]
ActionPtp == [motion |-> "ptp", ios |-> << IOa, IOb >>]
ActionSet == {ActionJnt, ActionPtp}

SeqsUpTo(S, n) == UNION {[1..k -> S] : k \in 0..n}

ActionLists == SeqsUpTo(ActionSet, MaxActions)

\* the inputs of calls that share a run (those of the two-robot example)
PlainActions == << ActionPtp >>
PlainTcp == "Flange"

\* ------------------------------------------------- nova.types.action (DSL)
RECURSIVE Flatten(_)
Flatten(ss) == IF ss = << >> THEN << >> ELSE Head(ss) \o Flatten(Tail(ss))

\* CombinedActions.motions: one motion command per action, in input order
CombinedMotions(items) == [i \in 1..Len(items) |-> items[i].motion]

\* CombinedActions.actions: the (I/O effect, path parameter) pairs, in order
CombinedIOActions(items) == Flatten([i \in 1..Len(items) |-> items[i].ios])

\* pydantic model_dump: the mapping of field names to field values
model_dump(a) == [f \in DOMAIN a |-> a[f]]

\* --------------------------------------------------- program constants
\* 0.2, in tenths
MAX_JOINT_VELOCITY_PREPARE_MOVE == 2

\* ------------------------------------------------------------ the state
VARIABLES
    pc,               \* where each session's coroutine is suspended
    unit,             \* the MotionGroup a session was called on
    mode,             \* the entry point it is a call of
    actions,          \* its actions argument
    tcp,              \* its tcp argument
    number_of_joints, \* local of _planned_motion_iter
    plan_response,    \* the answer plan_trajectory gave (None: none)
    plan_result,      \* what plan returned (None: nothing)
    motion,           \* load_plan_response.motion, the loaded handle
    requests,         \* remote requests the session has issued, in order
    sent,             \* commands movement_controller has yielded to the stream
    stream_open,      \* the execute-trajectory stream is open
    responses,        \* the list `responses` of move_along_path
    yielded,          \* MotionStates the async generator has yielded
    received,         \* MotionStates the caller of stream_run or run was handed
    initialize_movement_response, \* local of movement_controller (None: not yet)
    error,            \* the exception that left the coroutine (None: none)
    answers,          \* what the remote service has answered the session so far
    current_motion,   \* MotionGroup._current_motion, per unit
    stop_count,       \* how many times stop has been called
    last_stop,        \* the latest call of stop and its outcome
    stop_requests     \* handles for which a stop_execution request was sent

vars == << pc, unit, mode, actions, tcp, number_of_joints, plan_response, plan_result, motion,
           requests, sent, stream_open, responses, yielded, received,
           initialize_movement_response, error, answers, current_motion,
           stop_count, last_stop, stop_requests >>

stop_vars == << stop_count, last_stop, stop_requests >>

session_vars == << pc, unit, mode, actions, tcp, number_of_joints, plan_response, plan_result,
                   motion, requests, sent, stream_open, responses, yielded, received,
                   initialize_movement_response, error, answers >>

Init ==
    /\ pc = [s \in Sessions |-> "idle"]
    /\ unit = [s \in Sessions |-> None]
    /\ mode = [s \in Sessions |-> None]
    /\ actions = [s \in Sessions |-> << >>]
    /\ tcp = [s \in Sessions |-> None]
    /\ number_of_joints = [s \in Sessions |-> 0]
    /\ plan_response = [s \in Sessions |-> None]
    /\ plan_result = [s \in Sessions |-> None]
    /\ motion = [s \in Sessions |-> None]
    /\ requests = [s \in Sessions |-> << >>]
    /\ sent = [s \in Sessions |-> << >>]
    /\ stream_open = [s \in Sessions |-> FALSE]
    /\ responses = [s \in Sessions |-> << >>]
    /\ yielded = [s \in Sessions |-> << >>]
    /\ received = [s \in Sessions |-> << >>]
    /\ initialize_movement_response = [s \in Sessions |-> None]
    /\ error = [s \in Sessions |-> None]
    /\ answers = [s \in Sessions |-> << >>]
    /\ current_motion = [u \in Units |-> None]
    /\ stop_count = 0
    /\ last_stop = [unit |-> None, motion |-> None, requested |-> FALSE, raised |-> FALSE]
    /\ stop_requests = << >>

\* ------------------------------------------------- the remote service
\* len(spec.mechanical_joint_limits) of a unit
JointCount(u) == IF u = "ur" THEN 2 ELSE 3

\* the handle the execution subsystem gives the trajectory a session loads;
\* handles are unique, so the session's name stands for it
LoadedMotion(s) == s

PlanAnswers == {"JointTrajectory", "PlanTrajectoryFailedResponse", "error"}
LoadAnswers == {"plan_successful_response", "plan_failed_response", "error"}

Progress(n) == [kind |-> "MotionState", n |-> n]
Standstill(reason) == [kind |-> "Standstill", reason |-> reason]
StandstillReasons == {"REASON_MOTION_ENDED", "REASON_USER_PAUSED_MOTION"}

\* ------------------------------------------------ pieces of the code
\* a plan without the check of the action list
EmptyActions_Never(acts) == FALSE

\* plan: len(actions) == 0
EmptyActions(acts) == Len(acts) = 0

\* a plan that takes every planning response for a success
PlanFailed_Never(resp) == FALSE

\* plan: the planning response is the failure variant
PlanFailed(resp) == resp = "PlanTrajectoryFailedResponse"

\* motion_commands built from all motions but the first
motion_commands_DropFirst(motions) ==
    [i \in 1..(Len(motions) - 1) |-> [path |-> motions[i + 1]]]

\* plan: motion_commands, one MotionCommand(path=motion) per motion
motion_commands(motions) == [i \in 1..Len(motions) |-> [path |-> motions[i]]]

\* plan: the PlanTrajectoryRequest
PlanTrajectoryRequest(u, acts, t) ==
    [op |-> "plan_trajectory", motion_group |-> u, tcp |-> t,
     motion_commands |-> motion_commands(CombinedMotions(acts))]

\* the assignment of _current_motion after planning, were it not commented out
CurrentMotionAfterPlan_Set(cm, u, trajectory) == [cm EXCEPT ![u] = trajectory]

\* _planned_motion_iter: the assignment of _current_motion after planning is
\* commented out, so the handle stays what it was
CurrentMotionAfterPlan(cm, u, trajectory) == cm

\* a load whose answer is never looked at
LoadRaises_Never(r) == None

\* move_along_path: what the answer of load_planned_motion raises; on the
\* failure variant plan_successful_response is None and `.motion` fails
LoadRaises(r) ==
    IF r = "error" THEN "ApiException"
    ELSE IF r = "plan_failed_response" THEN "AttributeError"
    ELSE None

\* _planned_motion_iter: joints_velocities
JointsVelocities(n) == [i \in 1..n |-> MAX_JOINT_VELOCITY_PREPARE_MOVE]

\* move_along_path: limit_override (built, and handed to no request)
LimitsOverride(joint_velocities) == [joint_velocity_limits |-> joint_velocities]

\* an awaited first response whose absence on an ended stream goes unnoticed
InitializeRaises_NotWhenClosed(r) == IF r = "error" THEN "ApiException" ELSE None

\* movement_controller: what `await anext(response_stream)` raises; the
\* StopAsyncIteration of an ended stream leaves the generator as RuntimeError
InitializeRaises(r) ==
    IF r = "error" THEN "ApiException"
    ELSE IF r = "closed" THEN "RuntimeError"
    ELSE None

\* a run that hands its caller what stream_run hands its caller
CallerReceives_All(m, out) == out

\* stream_run hands its caller every state of _planned_motion_iter; run
\* consumes them and hands its caller none
CallerReceives(m, out) == IF m = "run" THEN << >> ELSE out

\* move_along_path: the PlannedMotion handed to load_planned_motion
PlannedMotion(u, t) ==
    [op |-> "load_planned_motion", motion_group |-> u, tcp |-> "Flange"]

\* move_along_path: the positioning request
MoveToTrajectoryRequest(m) ==
    [op |-> "stream_move_to_trajectory_via_joint_ptp", motion |-> m,
     location_on_trajectory |-> 0]

\* movement_controller: the first command
InitializeMovementRequest(m) ==
    [kind |-> "InitializeMovementRequest", trajectory |-> m,
     initial_location |-> 0]

\* a set_io_list that takes the position in the list for the location
set_io_list_ByPosition(io_actions) ==
    [i \in 1..Len(io_actions) |->
        [io |-> model_dump(io_actions[i]), location |-> i - 1]]

\* movement_controller: set_io_list
set_io_list(io_actions) ==
    [i \in 1..Len(io_actions) |->
        [io |-> model_dump(io_actions[i]),
         location |-> io_actions[i].path_parameter]]

\* movement_controller: the second command
StartMovementRequest(acts) ==
    [kind |-> "StartMovementRequest",
     set_ios |-> set_io_list(CombinedIOActions(acts)),
     start_on_io |-> None, pause_on_io |-> None]

\* a controller that does not wait for the response to its first command
OnStreamOpened_NoWait(m) ==
    << InitializeMovementRequest(m), StartMovementRequest(<< >>) >>

\* movement_controller: what is sent when the generator is started
OnStreamOpened(m) == << InitializeMovementRequest(m) >>

\* movement_controller: what has been sent once the awaited response is in
OnInitializeResponse(out, acts) == Append(out, StartMovementRequest(acts))

\* movement_controller: the response ends the generator
IsMotionEnded(response) ==
    /\ response.kind = "Standstill"
    /\ response.reason = "REASON_MOTION_ENDED"

\* move_along_path / _planned_motion_iter: what a stream response adds to the
\* MotionStates yielded to the caller (it is appended to `responses` only)
YieldedOnResponse(out, response) == out

\* a stop whose except clause catches nothing
StopSwallows_Nothing(exc) == FALSE

\* stop: the except clause
StopSwallows(exc) == exc = "ValueError"

\* stop: the handle the stop request is made for
StopTarget(u) == current_motion[u]

\* the generated client validates its arguments before it sends anything:
\* a motion of None is refused with a pydantic ValidationError, a ValueError
StopExecutionRaises(m) == IF m = None THEN "ValueError" ELSE None

\* ------------------------------------------------------------ the steps
Positioning(s) == pc[s] = "positioning"
Streaming(s) == pc[s] \in {"initialize", "streaming"}

\* an exception that ends every session under way, not only the one it is
\* raised in
Fail_Every(s, exc) ==
    /\ pc' = [o \in Sessions |->
                IF o = s \/ pc[o] \notin {"idle", "Returned", "Completed", "Failed"}
                THEN "Failed" ELSE pc[o]]
    /\ error' = [o \in Sessions |->
                IF o = s \/ pc[o] \notin {"idle", "Returned", "Completed", "Failed"}
                THEN exc ELSE error[o]]
    /\ stream_open' = [o \in Sessions |-> FALSE]

\* an exception leaves the coroutine; an open stream is closed on the way out
Fail(s, exc) ==
    /\ pc' = [pc EXCEPT ![s] = "Failed"]
    /\ error' = [error EXCEPT ![s] = exc]
    /\ stream_open' = [stream_open EXCEPT ![s] = FALSE]

\* the remote service answers the request the session awaits
Answered(s, stage, got) ==
    answers' = [answers EXCEPT ![s] = Append(@, [at |-> stage, got |-> got])]

\* plan up to its first await, with the requests `reqs` issued before it
EnterPlan(s, acts, t, reqs) ==
    IF EmptyActions(acts)
    THEN /\ Fail(s, "ValueError")
         /\ requests' = [requests EXCEPT ![s] = reqs]
    ELSE /\ pc' = [pc EXCEPT ![s] = "joints"]
         /\ requests' = [requests EXCEPT ![s] =
                Append(reqs, [op |-> "get_current_motion_group_state", tcp |-> t])]
         /\ UNCHANGED << error, stream_open >>

Input(m, acts, t) == [mode |-> m, actions |-> acts, tcp |-> t]
PlainInputs == {Input(m, PlainActions, PlainTcp) : m \in {"stream_run", "run"}}
IsPlain(o) == Input(mode[o], actions[o], tcp[o]) \in PlainInputs

\* a bound of the model: a call that is the only one of a run draws its
\* inputs from all of Modes, ActionLists and TCPs; calls that share a run with
\* another call are all made with the plain inputs, at most one of them a run
Inputs(s) ==
    IF \A o \in Sessions \ {s} : pc[o] = "idle"
    THEN {Input(m, acts, t) : m \in Modes, acts \in ActionLists, t \in TCPs}
    ELSE IF \A o \in Sessions \ {s} : pc[o] = "idle" \/ IsPlain(o)
    THEN {inp \in PlainInputs :
            inp.mode = "run" => \A o \in Sessions \ {s} : mode[o] # "run"}
    ELSE {}

\* plan(actions, tcp), stream_run(actions, tcp) or run(actions, tcp) is called
Call(s, u, m, acts, t) ==
    /\ pc[s] = "idle"
    /\ unit' = [unit EXCEPT ![s] = u]
    /\ mode' = [mode EXCEPT ![s] = m]
    /\ actions' = [actions EXCEPT ![s] = acts]
    /\ tcp' = [tcp EXCEPT ![s] = t]
    /\ IF m = "plan"
       THEN EnterPlan(s, acts, t, << >>)
       ELSE /\ pc' = [pc EXCEPT ![s] = "number_of_joints"]
            /\ requests' = [requests EXCEPT ![s] =
                    << [op |-> "get_motion_group_specification"] >>]
            /\ UNCHANGED << error, stream_open >>
    /\ UNCHANGED << number_of_joints, plan_response, plan_result, motion, sent, responses, yielded, received,
                    initialize_movement_response, answers, current_motion, stop_vars >>

StartCall(s, u) ==
    \E inp \in Inputs(s) : Call(s, u, inp.mode, inp.actions, inp.tcp)

\* _get_number_of_joints returns; plan is entered
NumberOfJointsReturns(s, r) ==
    /\ pc[s] = "number_of_joints"
    /\ Answered(s, "get_motion_group_specification", r)
    /\ IF r = "error"
       THEN /\ Fail(s, "ApiException")
            /\ UNCHANGED << number_of_joints, requests >>
       ELSE /\ number_of_joints' = [number_of_joints EXCEPT ![s] = JointCount(unit[s])]
            /\ EnterPlan(s, actions[s], tcp[s], requests[s])
    /\ UNCHANGED << unit, mode, actions, tcp, plan_response, plan_result, motion, sent, responses,
                    yielded, received, initialize_movement_response, current_motion, stop_vars >>

\* plan: self.joints returns
JointsReturns(s, r) ==
    /\ pc[s] = "joints"
    /\ Answered(s, "get_current_motion_group_state", r)
    /\ IF r = "error"
       THEN /\ Fail(s, "ApiException")
            /\ UNCHANGED requests
       ELSE /\ pc' = [pc EXCEPT ![s] = "optimizer_setup"]
            /\ requests' = [requests EXCEPT ![s] =
                    Append(@, [op |-> "get_optimizer_configuration", tcp |-> tcp[s]])]
            /\ UNCHANGED << error, stream_open >>
    /\ UNCHANGED << unit, mode, actions, tcp, number_of_joints, plan_response, plan_result, motion,
                    sent, responses, yielded, received, initialize_movement_response,
                    current_motion, stop_vars >>

\* plan: _get_optimizer_setup returns; the planning request is issued
OptimizerSetupReturns(s, r) ==
    /\ pc[s] = "optimizer_setup"
    /\ Answered(s, "get_optimizer_configuration", r)
    /\ IF r = "error"
       THEN /\ Fail(s, "ApiException")
            /\ UNCHANGED requests
       ELSE /\ pc' = [pc EXCEPT ![s] = "plan_trajectory"]
            /\ requests' = [requests EXCEPT ![s] =
                    Append(@, PlanTrajectoryRequest(unit[s], actions[s], tcp[s]))]
            /\ UNCHANGED << error, stream_open >>
    /\ UNCHANGED << unit, mode, actions, tcp, number_of_joints, plan_response, plan_result, motion,
                    sent, responses, yielded, received, initialize_movement_response,
                    current_motion, stop_vars >>

\* plan: plan_trajectory returns; plan raises or returns, and a stream_run goes
\* on to move_along_path, which issues the load request
PlanTrajectoryReturns(s, resp) ==
    /\ pc[s] = "plan_trajectory"
    /\ Answered(s, "plan_trajectory", resp)
    /\ IF resp = "error"
       THEN /\ Fail(s, "ApiException")
            /\ UNCHANGED << plan_response, plan_result, requests, current_motion >>
       ELSE IF PlanFailed(resp)
       THEN /\ Fail(s, "PlanTrajectoryFailed")
            /\ plan_response' = [plan_response EXCEPT ![s] = resp]
            /\ UNCHANGED << plan_result, requests, current_motion >>
       ELSE /\ plan_response' = [plan_response EXCEPT ![s] = resp]
            /\ plan_result' = [plan_result EXCEPT ![s] = resp]
            /\ IF mode[s] = "plan"
               THEN /\ pc' = [pc EXCEPT ![s] = "Returned"]
                    /\ UNCHANGED << requests, current_motion >>
               ELSE /\ pc' = [pc EXCEPT ![s] = "load"]
                    /\ current_motion' = CurrentMotionAfterPlan(current_motion, unit[s], resp)
                    /\ requests' = [requests EXCEPT ![s] =
                            Append(@, PlannedMotion(unit[s], tcp[s]))]
            /\ UNCHANGED << error, stream_open >>
    /\ UNCHANGED << unit, mode, actions, tcp, number_of_joints, motion, sent,
                    responses, yielded, received, initialize_movement_response, stop_vars >>

\* move_along_path: load_planned_motion returns; the positioning stream is opened
LoadReturns(s, r) ==
    /\ pc[s] = "load"
    /\ Answered(s, "load_planned_motion", r)
    /\ IF LoadRaises(r) # None
       THEN /\ Fail(s, LoadRaises(r))
            /\ UNCHANGED << motion, requests >>
       ELSE /\ motion' = [motion EXCEPT ![s] = LoadedMotion(s)]
            /\ pc' = [pc EXCEPT ![s] = "positioning"]
            /\ requests' = [requests EXCEPT ![s] =
                    Append(@, MoveToTrajectoryRequest(LoadedMotion(s)))]
            /\ UNCHANGED << error, stream_open >>
    /\ UNCHANGED << unit, mode, actions, tcp, number_of_joints, plan_response, plan_result, sent,
                    responses, yielded, received, initialize_movement_response,
                    current_motion, stop_vars >>

\* move_along_path: the positioning stream delivers a state, which is yielded
PositioningState(s) ==
    /\ pc[s] = "positioning"
    /\ Len(yielded[s]) < MaxPositioning
    /\ Answered(s, "stream_move_to_trajectory_via_joint_ptp", "MotionState")
    /\ yielded' = [yielded EXCEPT ![s] =
            Append(@, [kind |-> "move_to_trajectory", n |-> Len(@) + 1])]
    /\ received' = [received EXCEPT ![s] = CallerReceives(mode[s], yielded'[s])]
    /\ UNCHANGED << pc, unit, mode, actions, tcp, number_of_joints, plan_response, plan_result,
                    motion, requests, sent, stream_open, responses,
                    initialize_movement_response, error, current_motion, stop_vars >>

\* move_along_path: the positioning stream ends; execute_trajectory opens the
\* stream and starts movement_controller, which yields its first command
PositioningEnds(s, r) ==
    /\ pc[s] = "positioning"
    /\ Answered(s, "stream_move_to_trajectory_via_joint_ptp", r)
    /\ IF r = "error"
       THEN /\ Fail(s, "ApiException")
            /\ UNCHANGED << requests, sent, responses >>
       ELSE /\ responses' = [responses EXCEPT ![s] = << >>]
            /\ requests' = [requests EXCEPT ![s] = Append(@, [op |-> "execute_trajectory"])]
            /\ stream_open' = [stream_open EXCEPT ![s] = TRUE]
            /\ sent' = [sent EXCEPT ![s] = OnStreamOpened(motion[s])]
            /\ pc' = [pc EXCEPT ![s] = "initialize"]
            /\ UNCHANGED error
    /\ UNCHANGED << unit, mode, actions, tcp, number_of_joints, plan_response, plan_result, motion,
                    yielded, received, initialize_movement_response, current_motion, stop_vars >>

\* _planned_motion_iter runs to its end: the generator is exhausted
Finish(s) ==
    /\ pc' = [pc EXCEPT ![s] = "Completed"]
    /\ stream_open' = [stream_open EXCEPT ![s] = FALSE]
    /\ current_motion' = [current_motion EXCEPT ![unit[s]] = None]
    /\ UNCHANGED error

\* movement_controller: the awaited first response arrives (or the stream ends
\* or breaks instead); set_io_list is built and the second command is yielded
InitializeReturns(s, r) ==
    /\ pc[s] = "initialize"
    /\ Answered(s, "execute_trajectory", r)
    /\ IF InitializeRaises(r) # None
       THEN /\ Fail(s, InitializeRaises(r))
            /\ UNCHANGED << sent, initialize_movement_response >>
       ELSE /\ initialize_movement_response' =
                    [initialize_movement_response EXCEPT ![s] = r]
            /\ sent' = [sent EXCEPT ![s] = OnInitializeResponse(@, actions[s])]
            /\ pc' = [pc EXCEPT ![s] = "streaming"]
            /\ UNCHANGED << error, stream_open >>
    /\ UNCHANGED << unit, mode, actions, tcp, number_of_joints, plan_response, plan_result, motion,
                    requests, responses, yielded, received, current_motion, stop_vars >>

ProgressCount(s) ==
    Cardinality({i \in DOMAIN responses[s] : responses[s][i].kind = "MotionState"})

StandstillSeen(s) ==
    \E i \in DOMAIN responses[s] : responses[s][i].kind = "Standstill"

\* what the execution subsystem may deliver next on the stream: progress while
\* the unit moves, and one Standstill when it has stopped
StreamAnswers(s) ==
    IF StandstillSeen(s) THEN {}
    ELSE {Standstill(reason) : reason \in StandstillReasons}
         \cup (IF ProgressCount(s) < MaxProgress
               THEN {Progress(ProgressCount(s) + 1)} ELSE {})

AllStreamAnswers ==
    {Standstill(reason) : reason \in StandstillReasons}
    \cup {Progress(n) : n \in 1..MaxProgress}

\* movement_controller: one pass of the loop over response_stream
StreamResponse(s, response) ==
    /\ pc[s] = "streaming"
    /\ response \in StreamAnswers(s)
    /\ Answered(s, "execute_trajectory",
                IF response.kind = "Standstill" THEN response.reason ELSE response.kind)
    /\ responses' = [responses EXCEPT ![s] = Append(@, response)]
    /\ yielded' = [yielded EXCEPT ![s] = YieldedOnResponse(@, response)]
    /\ received' = [received EXCEPT ![s] = CallerReceives(mode[s], yielded'[s])]
    /\ IF IsMotionEnded(response)
       THEN Finish(s)
       ELSE UNCHANGED << pc, stream_open, current_motion, error >>
    /\ UNCHANGED << unit, mode, actions, tcp, number_of_joints, plan_response, plan_result, motion,
                    requests, sent, initialize_movement_response, stop_vars >>

\* movement_controller: response_stream ends (the loop is left, the generator
\* returns) or raises
StreamEnds(s, r) ==
    /\ pc[s] = "streaming"
    /\ Answered(s, "execute_trajectory", r)
    /\ IF r = "error"
       THEN Fail(s, "ApiException") /\ UNCHANGED current_motion
       ELSE Finish(s)
    /\ UNCHANGED << unit, mode, actions, tcp, number_of_joints, plan_response, plan_result, motion,
                    requests, sent, responses, yielded, received,
                    initialize_movement_response, stop_vars >>

\* stop() on the MotionGroup of unit u
Stop(u) ==
    /\ stop_count < MaxStops
    /\ stop_count' = stop_count + 1
    /\ LET m == StopTarget(u)
           exc == StopExecutionRaises(m)
       IN  /\ last_stop' = [unit |-> u, motion |-> m, requested |-> (exc = None),
                            raised |-> (exc # None /\ ~StopSwallows(exc))]
           /\ stop_requests' = IF exc = None THEN Append(stop_requests, m)
                                ELSE stop_requests
    /\ UNCHANGED << session_vars, current_motion >>

Next ==
    \/ \E s \in Sessions, u \in Units : StartCall(s, u)
    \/ \E s \in Sessions, r \in {"ok", "error"} : NumberOfJointsReturns(s, r)
    \/ \E s \in Sessions, r \in {"ok", "error"} : JointsReturns(s, r)
    \/ \E s \in Sessions, r \in {"ok", "error"} : OptimizerSetupReturns(s, r)
    \/ \E s \in Sessions, resp \in PlanAnswers : PlanTrajectoryReturns(s, resp)
    \/ \E s \in Sessions, r \in LoadAnswers : LoadReturns(s, r)
    \/ \E s \in Sessions : PositioningState(s)
    \/ \E s \in Sessions, r \in {"exhausted", "error"} : PositioningEnds(s, r)
    \/ \E s \in Sessions, r \in {"InitializeMovementResponse", "closed", "error"} :
            InitializeReturns(s, r)
    \/ \E s \in Sessions, response \in AllStreamAnswers : StreamResponse(s, response)
    \/ \E s \in Sessions, r \in {"closed", "error"} : StreamEnds(s, r)
    \/ \E u \in Units : Stop(u)

Spec == Init /\ [][Next]_vars

\* ================================================================ claims
IsProgressUpdate(r) == r.kind = "MotionState"
IsPositioningState(r) == r.kind = "move_to_trajectory"
IsAbnormalStandstill(r) == r.kind = "Standstill" /\ r.reason # "REASON_MOTION_ENDED"
StreamWasOpened(s) == \E i \in DOMAIN requests[s] : requests[s][i].op = "execute_trajectory"
CountKind(out, k) == Cardinality({i \in DOMAIN out : out[i].kind = k})

\* C1: on every execute-trajectory stream the commands sent are, in this
\* order, one Initialize and then one StartMovement; the StartMovement is on
\* the stream exactly when a response to the Initialize has been received, and
\* nothing else is ever sent, whatever responses arrive afterwards.
C1_InitializeThenStart ==
    \A s \in Sessions :
        /\ CountKind(sent[s], "InitializeMovementRequest") = (IF StreamWasOpened(s) THEN 1 ELSE 0)
        /\ CountKind(sent[s], "StartMovementRequest") =
                (IF initialize_movement_response[s] # None THEN 1 ELSE 0)
        /\ Len(sent[s]) <= 2
        /\ Len(sent[s]) >= 1 => sent[s][1] = InitializeMovementRequest(motion[s])
        /\ Len(sent[s]) = 2 => sent[s][2].kind = "StartMovementRequest"
        /\ pc[s] \in {"streaming", "Completed"} => Len(sent[s]) = 2
        /\ pc[s] = "initialize" => Len(sent[s]) = 1

\* C1 witness: both commands are out and two responses have arrived since.
C1_Witness ==
    \E s \in Sessions :
        /\ pc[s] = "streaming"
        /\ Len(responses[s]) >= 2
        /\ Len(sent[s]) = 2

\* C2: a session ends in Completed only after a Standstill response with
\* reason "motion ended normally".
C2_CompletedOnlyAfterNormalStandstill ==
    \A s \in Sessions :
        pc[s] = "Completed" =>
            /\ Len(responses[s]) > 0
            /\ IsMotionEnded(responses[s][Len(responses[s])])

\* C3: once a Standstill with a reason other than normal motion end has been
\* consumed, the session is Failed with an error for its caller.
C3_AbnormalStandstillFails ==
    \A s \in Sessions :
        (\E i \in DOMAIN responses[s] : IsAbnormalStandstill(responses[s][i])) =>
            pc[s] = "Failed" /\ error[s] # None

\* C4: the caller is yielded the positioning states and then one MotionState
\* per progress update received on the execute-trajectory stream, in order.
C4_ProgressUpdatesYielded ==
    \A s \in Sessions :
        yielded[s] = SelectSeq(yielded[s], IsPositioningState)
                        \o SelectSeq(responses[s], IsProgressUpdate)

\* C5: after a failure-variant planning response the call has raised
\* PlanTrajectoryFailed, no trajectory was returned, no load, positioning or
\* execute request was issued and the unit's current-motion handle is empty.
C5_PlanningFailureStopsPipeline ==
    \A s \in Sessions :
        plan_response[s] = "PlanTrajectoryFailedResponse" =>
            /\ pc[s] = "Failed"
            /\ error[s] = "PlanTrajectoryFailed"
            /\ plan_result[s] = None
            /\ \A i \in DOMAIN requests[s] :
                    requests[s][i].op \notin
                        {"load_planned_motion", "stream_move_to_trajectory_via_joint_ptp",
                         "execute_trajectory"}
            /\ motion[s] = None
            /\ sent[s] = << >>
            /\ ~stream_open[s]
            /\ yielded[s] = << >>
            /\ current_motion[unit[s]] = None

\* C5 witness: a stream_run whose planning request was answered by the failure
\* variant has ended.
C5_Witness ==
    \E s \in Sessions :
        /\ mode[s] = "stream_run"
        /\ plan_response[s] = "PlanTrajectoryFailedResponse"
        /\ pc[s] = "Failed"

\* C6: no two sessions of the same unit are in Positioning or Streaming at
\* the same time.
C6_OneActiveExecutionPerUnit ==
    \A s, o \in Sessions :
        (s # o /\ unit[s] = unit[o]) =>
            ~((Positioning(s) \/ Streaming(s)) /\ (Positioning(o) \/ Streaming(o)))

\* C7: the unit's current-motion handle is non-empty exactly while one of its
\* sessions is in Positioning or Streaming.
C7_HandleSetWhileActive ==
    \A u \in Units :
        current_motion[u] # None <=>
            \E s \in Sessions : unit[s] = u /\ (Positioning(s) \/ Streaming(s))

\* C8: a call of stop on a unit with no active motion does not raise and
\* leaves the unit's handle and every session as they were.
C8_StopWithoutMotionIsSilent ==
    [][(stop_count' = stop_count + 1 /\ current_motion[last_stop'.unit] = None) =>
            /\ ~last_stop'.raised
            /\ current_motion' = current_motion
            /\ session_vars' = session_vars]_vars

\* C8 witness: stop has been called twice in a row, the second time on a unit
\* whose session is consuming the execute-trajectory stream.
C8_Witness ==
    /\ stop_count >= 2
    /\ ~last_stop.raised
    /\ \E s \in Sessions : unit[s] = last_stop.unit /\ pc[s] = "streaming"

\* C9: a call of stop on a unit whose session is in Streaming sends a stop
\* request for the handle of that session's motion.
C9_StopTargetsActiveMotion ==
    [][\A s \in Sessions :
            (stop_count' = stop_count + 1 /\ Streaming(s) /\ last_stop'.unit = unit[s]) =>
                /\ last_stop'.requested
                /\ last_stop'.motion = motion[s]
                /\ stop_requests' = Append(stop_requests, motion[s])]_vars

\* C10: the StartMovement command is sent at most once and its I/O list has
\* one entry per I/O effect of the actions, in their order, each with the
\* effect's own path parameter, however many responses have arrived since.
C10_StartMovementCarriesIOs ==
    \A s \in Sessions :
        /\ CountKind(sent[s], "StartMovementRequest") <= 1
        /\ \A i \in DOMAIN sent[s] :
            sent[s][i].kind = "StartMovementRequest" =>
                LET ios == sent[s][i].set_ios
                    src == CombinedIOActions(actions[s])
                IN  /\ Len(ios) = Len(src)
                    /\ \A j \in DOMAIN src :
                        /\ ios[j].location = src[j].path_parameter
                        /\ ios[j].io.key = src[j].key
                        /\ ios[j].io.path_parameter = src[j].path_parameter

\* C10 witness: a StartMovement with four I/O entries, not in path-parameter
\* order, is out and responses have arrived after it.
C10_Witness ==
    \E s \in Sessions :
        /\ pc[s] = "streaming"
        /\ Len(responses[s]) >= 2
        /\ Len(sent[s]) = 2
        /\ Len(sent[s][2].set_ios) = 4
        /\ sent[s][2].set_ios[1].location > sent[s][2].set_ios[2].location

CountOp(reqs, op) == Cardinality({i \in DOMAIN reqs : reqs[i].op = op})
Ops(reqs) == [i \in DOMAIN reqs |-> reqs[i].op]
AnsweredAt(s, stage, got) ==
    \E i \in DOMAIN answers[s] : answers[s][i] = [at |-> stage, got |-> got]

\* C11: a call of plan issues at most one planning request, and exactly one
\* once its action list was accepted and the state and profile reads were
\* answered, also after a failure response; the request's motion_commands
\* has one command per action, the i-th one carrying the i-th action's motion.
C11_OnePlanningRequest ==
    \A s \in Sessions :
        /\ CountOp(requests[s], "plan_trajectory") <= 1
        /\ (pc[s] = "plan_trajectory" \/ plan_response[s] # None) =>
                CountOp(requests[s], "plan_trajectory") = 1
        /\ \A i \in DOMAIN requests[s] :
            requests[s][i].op = "plan_trajectory" =>
                /\ Len(actions[s]) > 0
                /\ Len(requests[s][i].motion_commands) = Len(actions[s])
                /\ \A j \in DOMAIN actions[s] :
                        requests[s][i].motion_commands[j].path = actions[s][j].motion

\* C11 witness: plan was called with two different actions and its planning
\* request was answered by the failure variant.
C11_Witness ==
    \E s \in Sessions :
        /\ mode[s] = "plan"
        /\ Len(actions[s]) = 2
        /\ actions[s][1].motion # actions[s][2].motion
        /\ plan_response[s] = "PlanTrajectoryFailedResponse"
        /\ pc[s] = "Failed"

\* C12: plan called with an empty action list has raised ValueError and has
\* issued no remote request.
C12_EmptyPlanIssuesNothing ==
    \A s \in Sessions :
        (mode[s] = "plan" /\ actions[s] = << >>) =>
            /\ pc[s] = "Failed"
            /\ error[s] = "ValueError"
            /\ requests[s] = << >>
            /\ answers[s] = << >>

\* C12 witness: plan has been called with the empty list.
C12_Witness ==
    \E s \in Sessions : mode[s] = "plan" /\ actions[s] = << >> /\ pc[s] = "Failed"

\* C13: when stream_run or run, called with an empty action list, has failed
\* with the empty-list error, no remote request has been issued.
C13_EmptyRunIssuesNothing ==
    \A s \in Sessions :
        (mode[s] \in {"stream_run", "run"} /\ actions[s] = << >>
            /\ pc[s] = "Failed" /\ error[s] = "ValueError") =>
                requests[s] = << >>

\* a request or command with the name of the unit and the handle the service
\* made up for the session written the same for all sessions
Anonymous(r) ==
    IF "motion" \in DOMAIN r THEN [r EXCEPT !.motion = "handle"]
    ELSE IF "trajectory" \in DOMAIN r THEN [r EXCEPT !.trajectory = "handle"]
    ELSE IF "motion_group" \in DOMAIN r THEN [r EXCEPT !.motion_group = "unit"]
    ELSE r
AnonymousSeq(q) == [i \in DOMAIN q |-> Anonymous(q[i])]

\* a call of run and a call of stream_run with the same actions and tcp that
\* got the same answers from the remote service
SameCallSameAnswers(a, b) ==
    /\ mode[a] = "run"
    /\ mode[b] = "stream_run"
    /\ actions[a] = actions[b]
    /\ tcp[a] = tcp[b]
    /\ answers[a] = answers[b]

\* C14: a run and a stream_run called with the same actions and tcp and given
\* the same remote answers are at the same point, have issued the same remote
\* requests and stream commands, have consumed the same responses, have left
\* the same current-motion handle on their units and have failed with the same
\* error or not at all; and the caller of run has been handed no MotionState.
C14_RunDrainsStreamRun ==
    /\ \A a, b \in Sessions :
        SameCallSameAnswers(a, b) =>
            /\ pc[a] = pc[b]
            /\ error[a] = error[b]
            /\ AnonymousSeq(requests[a]) = AnonymousSeq(requests[b])
            /\ AnonymousSeq(sent[a]) = AnonymousSeq(sent[b])
            /\ responses[a] = responses[b]
            /\ yielded[a] = yielded[b]
            /\ stream_open[a] = stream_open[b]
            /\ current_motion[unit[a]] = current_motion[unit[b]]
            /\ received[b] = yielded[b]
    /\ \A a \in Sessions : mode[a] = "run" => received[a] = << >>

\* C14 witness: a run and a stream_run that got the same answers have both
\* ended, after a positioning state and a progress response.
C14_Witness ==
    \E a, b \in Sessions :
        /\ SameCallSameAnswers(a, b)
        /\ pc[a] \in {"Completed", "Failed"}
        /\ Len(yielded[a]) > 0
        /\ Len(responses[a]) > 1

SessionState(s) ==
    << pc[s], unit[s], mode[s], actions[s], tcp[s], number_of_joints[s],
       plan_response[s], plan_result[s], motion[s], requests[s], sent[s],
       stream_open[s], responses[s], yielded[s], received[s],
       initialize_movement_response[s], error[s], answers[s] >>

\* a step of session a, on another unit than session b
StepOfOtherUnit(a, b) ==
    /\ a # b
    /\ pc'[a] # "idle" /\ pc'[b] # "idle"
    /\ unit'[a] # unit'[b]
    /\ SessionState(a)' # SessionState(a)

\* C16: a step of a session (its call, an answer to its plan, load,
\* positioning or stream, its completion or failure) changes neither the state
\* of a session of another unit nor that unit's current-motion handle, and a
\* stop of a unit changes no session and no other unit's handle; so each
\* session goes through the states it goes through alone.
C16_SessionsIndependent ==
    [][/\ \A a, b \in Sessions :
            StepOfOtherUnit(a, b) =>
                /\ SessionState(b)' = SessionState(b)
                /\ current_motion'[unit'[b]] = current_motion[unit'[b]]
       /\ stop_count' # stop_count =>
            /\ \A s \in Sessions : SessionState(s)' = SessionState(s)
            /\ \A u \in Units \ {last_stop'.unit} :
                    current_motion'[u] = current_motion[u]]_vars

\* C16 witness: the sessions of two units both stream, each with a response
\* consumed.
C16_Witness ==
    \E a, b \in Sessions :
        /\ unit[a] # unit[b]
        /\ pc[a] = "streaming" /\ pc[b] = "streaming"
        /\ Len(responses[a]) > 0 /\ Len(responses[b]) > 0

RemoteSteps ==
    << "plan_trajectory", "load_planned_motion",
       "stream_move_to_trajectory_via_joint_ptp", "execute_trajectory" >>
IsRemoteStep(op) == \E i \in DOMAIN RemoteSteps : RemoteSteps[i] = op
Requested(s, op) == CountOp(requests[s], op) > 0
AnswersAt(s, stage) == SelectSeq(answers[s], LAMBDA x : x.at = stage)
CountGot(q, got) == Cardinality({i \in DOMAIN q : q[i].got = got})

\* C17: in a stream_run or run the requests for plan, load, positioning and
\* execute are issued in this order, each at most once; load only after a
\* success planning response, positioning only after the load was answered
\* with success, execute (and the Initialize command) only after the
\* positioning stream was exhausted with every state of it yielded, and handed
\* to the caller of stream_run; after a failed load the session has failed
\* and no positioning or execute request was issued.
C17_PlanLoadPositionExecute ==
    \A s \in Sessions :
        mode[s] \in {"stream_run", "run"} =>
            /\ SelectSeq(Ops(requests[s]), IsRemoteStep) \in
                    {SubSeq(RemoteSteps, 1, n) : n \in 0..Len(RemoteSteps)}
            /\ Requested(s, "load_planned_motion") =>
                    AnsweredAt(s, "plan_trajectory", "JointTrajectory")
            /\ Requested(s, "stream_move_to_trajectory_via_joint_ptp") =>
                    AnsweredAt(s, "load_planned_motion", "plan_successful_response")
            /\ (Requested(s, "execute_trajectory") \/ sent[s] # << >>) =>
                    /\ AnsweredAt(s, "stream_move_to_trajectory_via_joint_ptp", "exhausted")
                    /\ Requested(s, "execute_trajectory")
                    /\ CountKind(yielded[s], "move_to_trajectory") =
                            CountGot(AnswersAt(s, "stream_move_to_trajectory_via_joint_ptp"),
                                     "MotionState")
                    /\ mode[s] = "stream_run" =>
                            CountKind(received[s], "move_to_trajectory") =
                                CountKind(yielded[s], "move_to_trajectory")
            /\ (\E r \in LoadAnswers \ {"plan_successful_response"} :
                    AnsweredAt(s, "load_planned_motion", r)) =>
                    /\ pc[s] = "Failed"
                    /\ error[s] \in {"ApiException", "AttributeError"}
                    /\ ~Requested(s, "stream_move_to_trajectory_via_joint_ptp")
                    /\ ~Requested(s, "execute_trajectory")
                    /\ sent[s] = << >>

\* C17 witness: a stream_run has opened its stream after a positioning state
\* was handed to its caller.
C17_Witness ==
    \E s \in Sessions :
        /\ mode[s] = "stream_run"
        /\ Requested(s, "execute_trajectory")
        /\ CountKind(received[s], "move_to_trajectory") > 0

FirstStreamAnswer(s) ==
    IF AnswersAt(s, "execute_trajectory") = << >> THEN None
    ELSE AnswersAt(s, "execute_trajectory")[1].got

\* C18: when the stream has ended or raised before the response to the
\* Initialize command, the session has failed with the error of the missing
\* response, has sent no StartMovement command and has not completed.
C18_NoInitializeResponseFails ==
    \A s \in Sessions :
        FirstStreamAnswer(s) \in {"closed", "error"} =>
            /\ pc[s] = "Failed"
            /\ error[s] = InitializeRaises(FirstStreamAnswer(s))
            /\ error[s] # None
            /\ CountKind(sent[s], "StartMovementRequest") = 0
            /\ initialize_movement_response[s] = None

\* C18 witness: the stream was closed by the remote side right after the
\* Initialize command.
C18_Witness ==
    \E s \in Sessions :
        /\ FirstStreamAnswer(s) = "closed"
        /\ CountKind(sent[s], "InitializeMovementRequest") = 1

\* C19: once a Standstill response, of any reason, was consumed from the
\* stream, the session has ended and consumes nothing more.
C19_StandstillEndsSession ==
    \A s \in Sessions :
        StandstillSeen(s) =>
            /\ pc[s] \in {"Completed", "Failed"}
            /\ ~stream_open[s]

C21_LoadedUnderPlannedTcp ==
    \A s \in Sessions :
        \A i, j \in DOMAIN requests[s] :
            (/\ requests[s][i].op = "plan_trajectory"
             /\ requests[s][j].op = "load_planned_motion") =>
                /\ requests[s][i].tcp = tcp[s]
                /\ requests[s][j].tcp = requests[s][i].tcp

====
